---- MODULE Spec2Model ----
(***************************************************************************)
(* Authentication / authorization core of the azure-ad-angular app:        *)
(* AuthService (auth state store, profile assembly, permission derivation) *)
(* and the parts of GraphService it calls.                                 *)
(***************************************************************************)
EXTENDS Integers, Sequences, FiniteSets, TLC

(* ----------------------------------------------------------------------- *)
(* Bounds of the model                                                     *)
(* ----------------------------------------------------------------------- *)
\* longest role list handed to the permission derivation in PermSpec
MaxRoles == 2
\* most calls of login(), logout(), reset() and refreshUserProfile() made on one service
MaxCalls == 2
\* most entries of a /me/memberOf answer in GroupSpec
MaxItems == 2

(* ----------------------------------------------------------------------- *)
(* Strings: a string is known by its characters; toLowerCase and includes  *)
(* work on the characters.                                                 *)
(* ----------------------------------------------------------------------- *)
CharsOf(s) ==
     CASE s = "Admin" -> <<"A","d","m","i","n">>
       [] s = "ADMIN" -> <<"A","D","M","I","N">>
       [] s = "admin" -> <<"a","d","m","i","n">>
       [] s = "Administrator" -> <<"A","d","m","i","n","i","s","t","r","a","t","o","r">>
       [] s = "EDITOR" -> <<"E","D","I","T","O","R">>
       [] s = "USER" -> <<"U","S","E","R">>
       [] s = "administrator" -> <<"a","d","m","i","n","i","s","t","r","a","t","o","r">>
       [] s = "Editor" -> <<"E","d","i","t","o","r">>
       [] s = "editor" -> <<"e","d","i","t","o","r">>
       [] s = "Viewer" -> <<"V","i","e","w","e","r">>
       [] s = "viewer" -> <<"v","i","e","w","e","r">>
       [] s = "User" -> <<"U","s","e","r">>
       [] s = "user" -> <<"u","s","e","r">>
       [] s = "write" -> <<"w","r","i","t","e">>
       [] s = "view" -> <<"v","i","e","w">>
       [] s = "read" -> <<"r","e","a","d">>
       [] s = "CustomWriteRole" -> <<"C","u","s","t","o","m","W","r","i","t","e","R","o","l","e">>
       [] s = "SuperAdmin" -> <<"S","u","p","e","r","A","d","m","i","n">>
       [] s = "ReadOnly" -> <<"R","e","a","d","O","n","l","y">>
       [] s = "Guest" -> <<"G","u","e","s","t">>
       [] s = "AdminTeam" -> <<"A","d","m","i","n","T","e","a","m">>
       [] s = "AdminEditor" -> <<"A","d","m","i","n","E","d","i","t","o","r">>
       [] s = "Staff" -> <<"S","t","a","f","f">>
       [] s = "ADMIN-team" -> <<"A","D","M","I","N","-","t","e","a","m">>
       [] s = "admin-team" -> <<"a","d","m","i","n","-","t","e","a","m">>
       [] s = "Viewers" -> <<"V","i","e","w","e","r","s">>
       [] s = "" -> <<>>

\* the strings of the model
Strings == {"Admin", "ADMIN", "admin", "administrator", "Editor", "editor", "Viewer",
            "viewer", "User", "user", "write", "view", "read", "CustomWriteRole",
            "SuperAdmin", "ReadOnly", "Guest", "AdminTeam", "AdminEditor", "Staff",
            "ADMIN-team", "admin-team", "Viewers", "Administrator", "EDITOR", "USER",
            ""}

\* the characters of every string
Chars == [s \in Strings |-> CharsOf(s)]

Upper == <<"A","B","C","D","E","F","G","H","I","J","K","L","M",
           "N","O","P","Q","R","S","T","U","V","W","X","Y","Z">>
Lower == <<"a","b","c","d","e","f","g","h","i","j","k","l","m",
           "n","o","p","q","r","s","t","u","v","w","x","y","z">>

\* one character of String.prototype.toLowerCase
LowerChar(c) ==
    IF \E i \in 1..Len(Upper) : Upper[i] = c
    THEN Lower[CHOOSE i \in 1..Len(Upper) : Upper[i] = c]
    ELSE c

\* s.toLowerCase() for every string, as characters
LowerCased == [s \in Strings |-> [i \in 1..Len(Chars[s]) |-> LowerChar(Chars[s][i])]]

\* toLowerCase that leaves the string as it is
toLowerCaseKeepsCase(s) == Chars[s]

\* role.toLowerCase(), as characters
toLowerCase(s) == LowerCased[s]

\* includes that looks at the start of the string only
includesAtStart(cs, sub) ==
    Len(cs) >= Len(Chars[sub]) /\ SubSeq(cs, 1, Len(Chars[sub])) = Chars[sub]

\* cs.includes(sub), cs a character sequence and sub a string literal
includes(cs, sub) ==
    \E i \in 0..(Len(cs) - Len(Chars[sub])) :
        SubSeq(cs, i + 1, i + Len(Chars[sub])) = Chars[sub]

(* ----------------------------------------------------------------------- *)
(* Role Deriver                                                            *)
(* ----------------------------------------------------------------------- *)
PermissionNames == {"canViewDashboard", "canManageUsers", "canSendEmails",
                    "canViewReports", "canManageSettings"}

initializePermissions(roles) ==
    [canViewDashboard |-> FALSE, canManageUsers |-> FALSE, canSendEmails |-> FALSE,
     canViewReports |-> FALSE, canManageSettings |-> FALSE]

\* ApplyRole that assigns a fresh record per role instead of adding to the record
ApplyRoleOverwrites(permissions, role) ==
    LET roleLower == toLowerCase(role) IN
    IF roleLower = Chars["admin"] \/ roleLower = Chars["administrator"]
    THEN [k \in PermissionNames |-> TRUE]
    ELSE IF roleLower = Chars["editor"]
    THEN [k \in PermissionNames |->
             k \in {"canViewDashboard", "canSendEmails", "canViewReports"}]
    ELSE IF roleLower = Chars["viewer"]
    THEN [k \in PermissionNames |-> k \in {"canViewDashboard", "canViewReports"}]
    ELSE IF roleLower = Chars["user"]
    THEN [k \in PermissionNames |-> k = "canViewDashboard"]
    ELSE [canViewDashboard |-> FALSE,
          canManageUsers |-> includes(roleLower, "admin"),
          canSendEmails |-> includes(roleLower, "editor") \/ includes(roleLower, "write"),
          canViewReports |-> includes(roleLower, "view") \/ includes(roleLower, "read"),
          canManageSettings |-> includes(roleLower, "admin")]

\* the body of the roles.forEach callback: one role folded into the record
ApplyRole(permissions, role) ==
    LET roleLower == toLowerCase(role) IN
    IF roleLower = Chars["admin"] \/ roleLower = Chars["administrator"]
    THEN [permissions EXCEPT !.canViewDashboard = TRUE, !.canManageUsers = TRUE,
                             !.canSendEmails = TRUE, !.canViewReports = TRUE,
                             !.canManageSettings = TRUE]
    ELSE IF roleLower = Chars["editor"]
    THEN [permissions EXCEPT !.canViewDashboard = TRUE, !.canSendEmails = TRUE,
                             !.canViewReports = TRUE]
    ELSE IF roleLower = Chars["viewer"]
    THEN [permissions EXCEPT !.canViewDashboard = TRUE, !.canViewReports = TRUE]
    ELSE IF roleLower = Chars["user"]
    THEN [permissions EXCEPT !.canViewDashboard = TRUE]
    ELSE LET p1 == IF includes(roleLower, "admin")
                   THEN [permissions EXCEPT !.canManageUsers = TRUE,
                                            !.canManageSettings = TRUE]
                   ELSE permissions
             p2 == IF includes(roleLower, "editor") \/ includes(roleLower, "write")
                   THEN [p1 EXCEPT !.canSendEmails = TRUE]
                   ELSE p1
         IN  IF includes(roleLower, "view") \/ includes(roleLower, "read")
             THEN [p2 EXCEPT !.canViewReports = TRUE]
             ELSE p2

\* FoldRoles that stops at the first role that grants anything
RECURSIVE FoldRolesStopsAtFirstGrant(_, _)
FoldRolesStopsAtFirstGrant(permissions, roles) ==
    IF roles = <<>> THEN permissions
    ELSE IF \E k \in PermissionNames : permissions[k] THEN permissions
    ELSE FoldRolesStopsAtFirstGrant(ApplyRole(permissions, Head(roles)), Tail(roles))

RECURSIVE FoldRoles(_, _)
FoldRoles(permissions, roles) ==
    IF roles = <<>> THEN permissions
    ELSE FoldRoles(ApplyRole(permissions, Head(roles)), Tail(roles))

\* EnsureDashboard without its if-block
EnsureDashboardSkipped(permissions) == permissions

\* "Ensure dashboard access if any permission is granted"
EnsureDashboard(permissions) ==
    IF \E k \in PermissionNames : permissions[k] = TRUE
    THEN [permissions EXCEPT !.canViewDashboard = TRUE]
    ELSE permissions

calculatePermissions(roles) ==
    EnsureDashboard(FoldRoles(initializePermissions(roles), roles))

\* uniqueRoles without the Set
uniqueRolesKeepsDuplicates(allRoles) == allRoles

\* [...new Set(allRoles)]: first occurrences, in order
RECURSIVE uniqueRoles(_)
uniqueRoles(allRoles) ==
    IF allRoles = <<>> THEN <<>>
    ELSE LET init == uniqueRoles(SubSeq(allRoles, 1, Len(allRoles) - 1))
             last == allRoles[Len(allRoles)]
         IN  IF \E i \in 1..Len(init) : init[i] = last THEN init
             ELSE Append(init, last)

\* extractRolesFromGroup as an else-if chain: the first rule that matches wins
extractRolesFromGroupExclusive(groupName) ==
    IF includes(toLowerCase(groupName), "admin") THEN <<"Admin">>
    ELSE IF includes(toLowerCase(groupName), "editor") THEN <<"Editor">>
    ELSE IF includes(toLowerCase(groupName), "viewer") THEN <<"Viewer">>
    ELSE <<"User">>

\* GraphService.extractRolesFromGroup
extractRolesFromGroup(groupName) ==
    LET r1 == IF includes(toLowerCase(groupName), "admin") THEN <<"Admin">> ELSE <<>>
        r2 == IF includes(toLowerCase(groupName), "editor") THEN Append(r1, "Editor") ELSE r1
        r3 == IF includes(toLowerCase(groupName), "viewer") THEN Append(r2, "Viewer") ELSE r2
    IN  IF Len(r3) = 0 THEN <<"User">> ELSE r3


(* ----------------------------------------------------------------------- *)
(* Inputs: identity accounts and directory answers                         *)
(* ----------------------------------------------------------------------- *)
\* an account object whose property reads throw (a null entry)
NullAccount == [valid |-> FALSE, name |-> "", username |-> "", roles |-> <<>>]
Alice == [valid |-> TRUE, name |-> "Alice", username |-> "alice", roles |-> <<"User">>]
Bob == [valid |-> TRUE, name |-> "Bob", username |-> "bob", roles |-> <<"Editor", "Editor">>]
Accounts == {Alice, Bob}

\* what getAllAccounts() can hold when the service is constructed
InitialCaches == {<<>>, <<NullAccount>>} \cup {<<a>> : a \in Accounts}

\* entries of the /me/memberOf answer
Group(displayName) == [type |-> "#microsoft.graph.group", displayName |-> displayName]
DirectoryRole(displayName) ==
    [type |-> "#microsoft.graph.directoryRole", displayName |-> displayName]

\* the answers of /me/memberOf that the model draws from
MemberOfAnswers ==
    {<<Group("AdminTeam")>>,
     <<Group("Staff"), DirectoryRole("AdminEditor"), Group("AdminTeam"), Group("AdminEditor")>>}

RECURSIVE SeqsUpTo(_, _)
SeqsUpTo(S, n) ==
    IF n = 0 THEN {<<>>}
    ELSE LET shorter == SeqsUpTo(S, n - 1)
         IN  shorter \cup {Append(s, x) : s \in shorter, x \in S}

RemoveAt(s, i) == SubSeq(s, 1, i - 1) \o SubSeq(s, i + 1, Len(s))
InsertAt(s, i, x) == SubSeq(s, 1, i - 1) \o <<x>> \o SubSeq(s, i, Len(s))

(* ----------------------------------------------------------------------- *)
(* State                                                                   *)
(* ----------------------------------------------------------------------- *)
VARIABLES
    userProfile,        \* userProfileSubject.value
    isAuthenticated,    \* isAuthenticatedSubject.value
    isLoading,          \* isLoadingSubject.value
    isMsalInitialized,  \* the readiness flag
    accounts,           \* the Session Provider's account cache (getAllAccounts())
    loads,              \* loadUserProfile invocations in flight, oldest first
    logins,             \* login() calls in flight
    logouts,            \* number of logout() calls waiting for logoutPopup
    lastOp,             \* the handler that ran last
    obs,                \* what that handler did, in order: calls and emissions
    pub,                \* how the profile now in userProfile was assembled
    calls,              \* calls of the public operations made so far
    afterReset,         \* reset() has run and login() has not been called since
    pureIn,             \* the specifications of single functions: the input
    pureOut             \* <<>>, or <<the result>>; TokenSpec: <<the getAccessToken() call>>

vars == <<userProfile, isAuthenticated, isLoading, isMsalInitialized, accounts,
          loads, logins, logouts, calls, lastOp, obs, pub, afterReset, pureIn, pureOut>>

Null == [null |-> TRUE]
NoPub == [path |-> "none", account |-> NullAccount]

\* the store and the running handler's trace, threaded through a handler's statements
Cur == [userProfile |-> userProfile, isAuthenticated |-> isAuthenticated,
        isLoading |-> isLoading, isMsalInitialized |-> isMsalInitialized,
        obs |-> <<>>, pub |-> pub]

Event(ev, st) == [ev |-> ev, hasProfile |-> st.userProfile # Null,
                  isAuthenticated |-> st.isAuthenticated, isLoading |-> st.isLoading]
Note(st, ev) == [st EXCEPT !.obs = Append(st.obs, Event(ev, st))]

\* subject.next(v): the value changes, then the subscribers run and see the store
NextProfile(st, v, how) ==
    Note([st EXCEPT !.userProfile = v, !.pub = how], "userProfile")
NextAuthenticated(st, v) == Note([st EXCEPT !.isAuthenticated = v], "isAuthenticated")
NextLoading(st, v) == Note([st EXCEPT !.isLoading = v], "isLoading")

\* the handler is over: its result is the new store
Commit(result) ==
    \E st \in {result} :
        /\ userProfile' = st.userProfile
        /\ isAuthenticated' = st.isAuthenticated
        /\ isLoading' = st.isLoading
        /\ isMsalInitialized' = st.isMsalInitialized
        /\ obs' = st.obs
        /\ pub' = st.pub


(* ----------------------------------------------------------------------- *)
(* Profile Assembler: AuthService.loadUserProfile                          *)
(* ----------------------------------------------------------------------- *)
\* the basicProfile literal; reading a property of a null account throws
basicProfile(account) ==
    IF ~account.valid THEN [thrown |-> TRUE, profile |-> Null]
    ELSE [thrown |-> FALSE,
          profile |-> [name |-> IF account.name = "" THEN "User" ELSE account.name,
                       email |-> account.username,
                       username |-> account.username,
                       roles |-> account.roles,
                       groups |-> <<>>,
                       graphProfile |-> FALSE,
                       permissions |-> initializePermissions(<<>>)]]

errorProfile ==
    [name |-> "User", email |-> "", username |-> "", roles |-> <<"User">>,
     groups |-> <<>>, graphProfile |-> FALSE,
     permissions |-> calculatePermissions(<<"User">>)]

\* GraphService.getMyGroupsAndRoles on the answer of /me/memberOf; a failed
\* request (or token) is caught and gives []
getMyGroupsAndRoles(answer) ==
    IF ~answer.ok THEN <<>>
    ELSE LET gs == SelectSeq(answer.items,
                             LAMBDA item : item.type = "#microsoft.graph.group")
         IN  [i \in 1..Len(gs) |->
                 [displayName |-> gs[i].displayName,
                  roles |-> extractRolesFromGroup(gs[i].displayName)]]

\* allRoles: the claim roles, then every group's roles pushed in order
RECURSIVE allRoles(_, _)
allRoles(roles, groups) ==
    IF groups = <<>> THEN roles
    ELSE allRoles(roles \o Head(groups).roles, Tail(groups))

\* fullProfile that derives the permissions from the claim roles alone
fullProfilePermissionsFromClaims(basic, groups) ==
    [basic EXCEPT !.graphProfile = TRUE,
                  !.groups = groups,
                  !.roles = uniqueRoles(allRoles(basic.roles, groups)),
                  !.permissions = calculatePermissions(basic.roles)]

fullProfile(basic, groups) ==
    [basic EXCEPT !.graphProfile = TRUE,
                  !.groups = groups,
                  !.roles = uniqueRoles(allRoles(basic.roles, groups)),
                  !.permissions = calculatePermissions(uniqueRoles(allRoles(basic.roles, groups)))]

\* fallbackProfile that republishes basicProfile without deriving permissions
fallbackProfileKeepsPermissions(basic) == basic

fallbackProfile(basic) ==
    [basic EXCEPT !.permissions = calculatePermissions(basic.roles)]

\* catch (graphError): publish the fallback profile
graphErrorHandler(st, account) ==
    [st |-> NextProfile(st, fallbackProfile(basicProfile(account).profile),
                        [path |-> "fallback", account |-> account]),
     thrown |-> FALSE]

\* errorHandler that publishes the minimal profile without deriving permissions
errorHandlerGrantsNothing(st, account) ==
    [st |-> NextProfile(st, [errorProfile EXCEPT !.permissions = initializePermissions(<<>>)],
                        [path |-> "error", account |-> account]),
     thrown |-> FALSE]

\* errorHandler that rethrows instead of publishing
errorHandlerRethrows(st, account) == [st |-> st, thrown |-> TRUE]

\* catch (error): publish the minimal profile
errorHandler(st, account) ==
    [st |-> NextProfile(st, errorProfile, [path |-> "error", account |-> account]),
     thrown |-> FALSE]

\* finallyBlock that forgets isLoadingSubject.next(false)
finallyBlockKeepsLoading(st) == [st EXCEPT !.isMsalInitialized = TRUE]

\* finally
finallyBlock(st) ==
    [NextLoading(st, FALSE) EXCEPT !.isMsalInitialized = TRUE]

Published(st) == \E i \in 1..Len(st.obs) : st.obs[i].ev = "userProfile" /\ st.obs[i].hasProfile

\* the way out of loadUserProfile: the outer catch when the try block threw, the
\* finally block, and the promise settled
settle(st, account, then, thrownInTry) ==
    LET h == IF thrownInTry THEN errorHandler(st, account)
             ELSE [st |-> st, thrown |-> FALSE]
        f == finallyBlock(h.st)
    IN  [st |-> Note(f, IF h.thrown THEN "loadUserProfile throws"
                        ELSE "loadUserProfile returns"),
         load |-> [pc |-> "resolved", account |-> account, then |-> then,
                   rejected |-> h.thrown, published |-> Published(f)]]

\* loadUserProfile(account) up to its first await (or to its end when step 1 throws)
loadUserProfile(st, account, then) ==
    LET s1 == NextLoading(Note(st, "loadUserProfile called"), TRUE)
    IN  IF basicProfile(account).thrown
        THEN settle(s1, account, then, TRUE)
        ELSE [st |-> s1,
              load |-> [pc |-> "getMyProfile", account |-> account, then |-> then,
                        rejected |-> FALSE, published |-> FALSE]]

\* the rest of the try block after "await getMyProfile()" threw
afterGetMyProfileFails(st, load) ==
    LET h == graphErrorHandler(st, load.account)
    IN  settle(h.st, load.account, load.then, h.thrown)

\* afterGetMyGroupsAndRoles for a group lookup that lets its failure through
afterGetMyGroupsAndRolesRethrown(st, load, answer) ==
    IF ~answer.ok THEN afterGetMyProfileFails(st, load)
    ELSE settle(NextProfile(st, fullProfile(basicProfile(load.account).profile,
                                            getMyGroupsAndRoles(answer)),
                            [path |-> "full", account |-> load.account]),
                load.account, load.then, FALSE)

\* afterGetMyGroupsAndRoles that coalesces: a store that already holds a profile
\* is not written again
afterGetMyGroupsAndRolesCoalesced(st, load, answer) ==
    IF st.userProfile # Null THEN settle(st, load.account, load.then, FALSE)
    ELSE settle(NextProfile(st, fullProfile(basicProfile(load.account).profile,
                                            getMyGroupsAndRoles(answer)),
                            [path |-> "full", account |-> load.account]),
                load.account, load.then, FALSE)

\* the rest of the try block after "await getMyGroupsAndRoles()"
afterGetMyGroupsAndRoles(st, load, answer) ==
    LET full == fullProfile(basicProfile(load.account).profile, getMyGroupsAndRoles(answer))
    IN  settle(NextProfile(st, full, [path |-> "full", account |-> load.account]),
               load.account, load.then, FALSE)


(* ----------------------------------------------------------------------- *)
(* AuthService.getHighestRole                                              *)
(* ----------------------------------------------------------------------- *)
\* getHighestRole going through the hierarchy from its low end
getHighestRoleLowestFirst(profile) ==
    IF profile = Null THEN "User"
    ELSE IF Len(profile.roles) = 0 THEN "User"
    ELSE LET has(role) == \E i \in 1..Len(profile.roles) : profile.roles[i] = role
         IN  IF has("User") THEN "User"
             ELSE IF has("Viewer") THEN "Viewer"
             ELSE IF has("Editor") THEN "Editor"
             ELSE IF has("Admin") THEN "Admin"
             ELSE IF profile.roles[1] = "" THEN "User"
             ELSE profile.roles[1]

\* getHighestRole() on userProfileSubject.value; Array.includes compares whole
\* strings, and an empty first role is falsy
getHighestRole(profile) ==
    IF profile = Null THEN "User"
    ELSE IF Len(profile.roles) = 0 THEN "User"
    ELSE LET has(role) == \E i \in 1..Len(profile.roles) : profile.roles[i] = role
         IN  IF has("Admin") THEN "Admin"
             ELSE IF has("Editor") THEN "Editor"
             ELSE IF has("Viewer") THEN "Viewer"
             ELSE IF has("User") THEN "User"
             ELSE IF profile.roles[1] = "" THEN "User"
             ELSE profile.roles[1]

\* hasRole(role) on userProfileSubject.value: both sides lower-cased
hasRole(profile, role) ==
    IF profile = Null THEN FALSE
    ELSE \E i \in 1..Len(profile.roles) :
            toLowerCase(profile.roles[i]) = toLowerCase(role)

\* DashboardComponent.getHighestRole() on the component's copy of the profile
dashboardGetHighestRole(profile) ==
    IF profile = Null THEN "User"
    ELSE IF Len(profile.roles) = 0 THEN "User"
    ELSE LET has(role) == \E i \in 1..Len(profile.roles) : profile.roles[i] = role
         IN  IF has("Admin") THEN "Admin"
             ELSE IF has("Editor") THEN "Editor"
             ELSE IF has("Viewer") THEN "Viewer"
             ELSE IF has("User") THEN "User"
             ELSE IF profile.roles[1] = "" THEN "User"
             ELSE profile.roles[1]

(* ----------------------------------------------------------------------- *)
(* Construction: constructor -> initializeAuth()                           *)
(* ----------------------------------------------------------------------- *)
Store0 == [userProfile |-> Null, isAuthenticated |-> FALSE, isLoading |-> FALSE,
           isMsalInitialized |-> FALSE, obs |-> <<>>, pub |-> NoPub]

\* getAllAccounts() either throws (provider not ready) or gives the cache; reading
\* accounts[0].username of a null entry throws too, and the catch leaves the
\* readiness flag unset
initializeAuth(throws, cache) ==
    IF throws THEN [st |-> Store0, loads |-> <<>>]
    ELSE IF Len(cache) > 0 /\ ~cache[1].valid THEN [st |-> Store0, loads |-> <<>>]
    ELSE IF Len(cache) > 0
    THEN LET r == loadUserProfile(Store0, cache[1], "authenticate")
         IN  [st |-> [r.st EXCEPT !.isMsalInitialized = TRUE], loads |-> <<r.load>>]
    ELSE [st |-> [Store0 EXCEPT !.isMsalInitialized = TRUE], loads |-> <<>>]

RolePool == {"Admin", "ADMIN", "administrator", "Administrator", "Editor", "EDITOR",
             "Viewer", "viewer", "User", "USER",
             "CustomWriteRole", "SuperAdmin", "ReadOnly", "Guest", "AdminEditor", "Viewers"}

Init ==
    \E throws \in BOOLEAN, cache \in InitialCaches :
        LET r == initializeAuth(throws, cache) IN
        /\ userProfile = r.st.userProfile
        /\ isAuthenticated = r.st.isAuthenticated
        /\ isLoading = r.st.isLoading
        /\ isMsalInitialized = r.st.isMsalInitialized
        /\ obs = r.st.obs
        /\ pub = r.st.pub
        /\ accounts = cache
        /\ loads = r.loads
        /\ logins = <<>>
        /\ logouts = 0
        /\ calls = 0
        /\ lastOp = "constructor"
        /\ afterReset = FALSE
        /\ pureIn = <<>>
        /\ pureOut = <<>>

(* ----------------------------------------------------------------------- *)
(* login()                                                                 *)
(* ----------------------------------------------------------------------- *)
\* login() up to the promise of ensureMSALInitialized(): with the flag set the
\* promise is already resolved with true, otherwise initialize() is awaited
Login ==
    /\ calls < MaxCalls
    /\ calls' = calls + 1
    /\ Commit(NextLoading(Cur, TRUE))
    /\ logins' = Append(logins, IF isMsalInitialized
                                THEN [pc |-> "then", isInitialized |-> TRUE]
                                ELSE [pc |-> "initialize", isInitialized |-> FALSE])
    /\ afterReset' = FALSE
    /\ lastOp' = "login"
    /\ UNCHANGED <<accounts, loads, logouts, pureIn, pureOut>>

\* ensureMSALInitialized() after "await initialize()"
InitializeReturns(i, ok) ==
    /\ logins[i].pc = "initialize"
    /\ logins' = [logins EXCEPT ![i] = [pc |-> "then", isInitialized |-> ok]]
    /\ Commit([Cur EXCEPT !.isMsalInitialized = IF ok THEN TRUE ELSE @])
    /\ lastOp' = "ensureMSALInitialized"
    /\ UNCHANGED <<calls, accounts, loads, logouts, afterReset, pureIn, pureOut>>

\* the callback's branch for isInitialized = false: console.error, isLoading
\* released, and a plain return; login() itself returned before, with no value
loginBlocked(st) == Note(NextLoading(st, FALSE), "login.then returns")

\* the callback of ensureMSALInitialized().then
LoginThen(i) ==
    /\ logins[i].pc = "then"
    /\ IF ~logins[i].isInitialized
       THEN /\ Commit(loginBlocked(Cur))
            /\ logins' = RemoveAt(logins, i)
       ELSE /\ Commit(Cur)
            /\ logins' = [logins EXCEPT ![i].pc = "loginPopup"]
    /\ lastOp' = "login.then"
    /\ UNCHANGED <<calls, accounts, loads, logouts, afterReset, pureIn, pureOut>>

\* the account cache after an interactive login as account a
CacheAfterLogin(cache, a) ==
    IF \E k \in 1..Len(cache) : cache[k] = a THEN {cache}
    ELSE {InsertAt(cache, k, a) : k \in 1..(Len(cache) + 1)}

\* loginNext that authenticates without waiting for the profile
loginNextAuthenticatesAtOnce(st, cache) ==
    IF Len(cache) > 0
    THEN LET r == loadUserProfile(st, cache[1], "authenticate")
         IN  [st |-> NextLoading(NextAuthenticated(r.st, TRUE), FALSE),
              started |-> <<r.load>>]
    ELSE [st |-> NextLoading(st, FALSE), started |-> <<>>]

\* what loginPopup's next handler does, cache being getAllAccounts() after the
\* login: the first account is made active and loaded, then isLoading is released
loginNext(st, cache) ==
    IF Len(cache) > 0
    THEN LET r == loadUserProfile(st, cache[1], "authenticate")
         IN  [st |-> NextLoading(r.st, FALSE), started |-> <<r.load>>]
    ELSE [st |-> NextLoading(st, FALSE), started |-> <<>>]

\* loginPopup's next handler
LoginPopupNext(i, a) ==
    /\ logins[i].pc = "loginPopup"
    /\ \E cache \in CacheAfterLogin(accounts, a) :
        /\ accounts' = cache
        /\ Commit(loginNext(Cur, cache).st)
        /\ loads' = loads \o loginNext(Cur, cache).started
    /\ logins' = RemoveAt(logins, i)
    /\ lastOp' = "loginPopup.next"
    /\ UNCHANGED <<calls, logouts, afterReset, pureIn, pureOut>>

\* loginError that also signs the user out
loginErrorSignsOut(st) == NextLoading(NextAuthenticated(st, FALSE), FALSE)

\* what loginPopup's error handler does to the store
loginError(st) == NextLoading(st, FALSE)

\* loginPopup's error handler
LoginPopupError(i) ==
    /\ logins[i].pc = "loginPopup"
    /\ Commit(loginError(Cur))
    /\ logins' = RemoveAt(logins, i)
    /\ lastOp' = "loginPopup.error"
    /\ UNCHANGED <<calls, accounts, loads, logouts, afterReset, pureIn, pureOut>>

(* ----------------------------------------------------------------------- *)
(* logout(), reset(), refreshUserProfile()                                 *)
(* ----------------------------------------------------------------------- *)
Logout ==
    /\ calls < MaxCalls
    /\ calls' = calls + 1
    /\ Commit(NextLoading(Cur, TRUE))
    /\ logouts' = logouts + 1
    /\ lastOp' = "logout"
    /\ UNCHANGED <<accounts, loads, logins, afterReset, pureIn, pureOut>>

\* what logoutPopup's next handler does to the store, statement by statement
logoutNext(st) ==
    NextLoading(NextAuthenticated(NextProfile(st, Null, NoPub), FALSE), FALSE)

\* logoutPopup's next handler; the provider has dropped its accounts
LogoutPopupNext ==
    /\ logouts > 0
    /\ Commit(logoutNext(Cur))
    /\ accounts' = <<>>
    /\ logouts' = logouts - 1
    /\ lastOp' = "logoutPopup.next"
    /\ UNCHANGED <<calls, loads, logins, afterReset, pureIn, pureOut>>

\* logoutPopup's error handler
LogoutPopupError ==
    /\ logouts > 0
    /\ Commit(NextLoading(Cur, FALSE))
    /\ logouts' = logouts - 1
    /\ lastOp' = "logoutPopup.error"
    /\ UNCHANGED <<calls, accounts, loads, logins, afterReset, pureIn, pureOut>>

\* what reset() does to the store, statement by statement
reset(st) ==
    [NextLoading(NextAuthenticated(NextProfile(st, Null, NoPub), FALSE), FALSE)
        EXCEPT !.isMsalInitialized = FALSE]

\* reset(); clearCache() empties the provider's accounts
Reset ==
    /\ calls < MaxCalls
    /\ calls' = calls + 1
    /\ Commit(reset(Cur))
    /\ accounts' = <<>>
    /\ afterReset' = TRUE
    /\ lastOp' = "reset"
    /\ UNCHANGED <<loads, logins, logouts, pureIn, pureOut>>

\* the invocations something still waits for: refreshUserProfile() does nothing
\* after its "await loadUserProfile()"
Waiting(ls) == SelectSeq(ls, LAMBDA l : ~(l.pc = "resolved" /\ l.then = "refresh"))

\* refreshUserProfile() up to its await
RefreshUserProfile ==
    /\ calls < MaxCalls
    /\ calls' = calls + 1
    /\ IF Len(accounts) > 0
       THEN LET r == loadUserProfile(Cur, accounts[1], "refresh")
            IN  /\ Commit(r.st)
                /\ loads' = Waiting(Append(loads, r.load))
       ELSE /\ Commit(Cur)
            /\ loads' = loads
    /\ lastOp' = "refreshUserProfile"
    /\ UNCHANGED <<accounts, logins, logouts, afterReset, pureIn, pureOut>>

(* ----------------------------------------------------------------------- *)
(* Completions of the awaits of loadUserProfile                            *)
(* ----------------------------------------------------------------------- *)
\* "await getMyProfile()" is over: ok, or it threw
GetMyProfileReturns(i, ok) ==
    /\ loads[i].pc = "getMyProfile"
    /\ IF ok
       THEN /\ Commit(Cur)
            /\ loads' = [loads EXCEPT ![i].pc = "getMyGroupsAndRoles"]
       ELSE LET r == afterGetMyProfileFails(Cur, loads[i])
            IN  /\ Commit(r.st)
                /\ loads' = Waiting([loads EXCEPT ![i] = r.load])
    /\ lastOp' = "getMyProfile"
    /\ UNCHANGED <<calls, accounts, logins, logouts, afterReset, pureIn, pureOut>>

\* "await getMyGroupsAndRoles()" is over
GetMyGroupsAndRolesReturns(i, answer) ==
    /\ loads[i].pc = "getMyGroupsAndRoles"
    /\ LET r == afterGetMyGroupsAndRoles(Cur, loads[i], answer)
       IN  /\ Commit(r.st)
           /\ loads' = Waiting([loads EXCEPT ![i] = r.load])
    /\ lastOp' = "getMyGroupsAndRoles"
    /\ UNCHANGED <<calls, accounts, logins, logouts, afterReset, pureIn, pureOut>>

\* Settled for a continuation that does not wait for the promise
SettledOrNot(load) == TRUE

\* whether the continuation of a loadUserProfile promise may run
Settled(load) == load.pc = "resolved"

\* loadUserProfile(...).then(() => isAuthenticatedSubject.next(true)); a rejected
\* promise skips the callback
ThenAuthenticate(i) ==
    /\ Settled(loads[i])
    /\ loads[i].then = "authenticate"
    /\ Commit(IF loads[i].rejected THEN Cur ELSE NextAuthenticated(Cur, TRUE))
    /\ loads' = RemoveAt(loads, i)
    /\ lastOp' = "loadUserProfile.then"
    /\ UNCHANGED <<calls, accounts, logins, logouts, afterReset, pureIn, pureOut>>

Next ==
    \/ Login
    \/ \E i \in 1..Len(logins), ok \in BOOLEAN : InitializeReturns(i, ok)
    \/ \E i \in 1..Len(logins) : LoginThen(i)
    \/ \E i \in 1..Len(logins), a \in Accounts : LoginPopupNext(i, a)
    \/ \E i \in 1..Len(logins) : LoginPopupError(i)
    \/ Logout
    \/ LogoutPopupNext
    \/ LogoutPopupError
    \/ Reset
    \/ RefreshUserProfile
    \/ \E i \in 1..Len(loads), ok \in BOOLEAN : GetMyProfileReturns(i, ok)
    \/ \E i \in 1..Len(loads),
          answer \in {[ok |-> FALSE, items |-> <<>>]}
                       \cup {[ok |-> TRUE, items |-> its] : its \in MemberOfAnswers} :
          GetMyGroupsAndRolesReturns(i, answer)
    \/ \E i \in 1..Len(loads) : ThenAuthenticate(i)

Spec == Init /\ [][Next]_vars

(* ----------------------------------------------------------------------- *)
(* PermSpec: the permission derivation applied to role lists               *)
(* ----------------------------------------------------------------------- *)
RoleLists == SeqsUpTo(RolePool, MaxRoles)

PermInit ==
    /\ userProfile = Null
    /\ isAuthenticated = FALSE
    /\ isLoading = FALSE
    /\ isMsalInitialized = FALSE
    /\ obs = <<>>
    /\ pub = NoPub
    /\ accounts = <<>>
    /\ loads = <<>>
    /\ logins = <<>>
    /\ logouts = 0
    /\ calls = 0
    /\ lastOp = "none"
    /\ afterReset = FALSE
    /\ pureIn \in RoleLists
    /\ pureOut = <<>>

Derive ==
    /\ pureOut = <<>>
    /\ pureOut' = <<calculatePermissions(pureIn)>>
    /\ UNCHANGED <<userProfile, isAuthenticated, isLoading, isMsalInitialized, accounts,
                   loads, logins, logouts, calls, lastOp, obs, pub, afterReset, pureIn>>

PermNext == Derive

PermSpec == PermInit /\ [][PermNext]_vars

(* ----------------------------------------------------------------------- *)
(* PairSpec: the permission derivation applied to two role lists           *)
(* ----------------------------------------------------------------------- *)
\* the service with nothing in flight; the specifications of single functions
\* leave it alone
Idle ==
    /\ userProfile = Null
    /\ isAuthenticated = FALSE
    /\ isLoading = FALSE
    /\ isMsalInitialized = FALSE
    /\ obs = <<>>
    /\ pub = NoPub
    /\ accounts = <<>>
    /\ loads = <<>>
    /\ logins = <<>>
    /\ logouts = 0
    /\ calls = 0
    /\ lastOp = "none"
    /\ afterReset = FALSE

PairPool == {"admin", "Editor", "Viewer", "User", "CustomWriteRole", "ReadOnly", "Guest"}
PairLists == SeqsUpTo(PairPool, MaxRoles)

PairInit ==
    /\ Idle
    /\ pureIn \in PairLists \X PairLists
    /\ pureOut = <<>>

DerivePair ==
    /\ pureOut = <<>>
    /\ pureOut' = <<calculatePermissions(pureIn[1]), calculatePermissions(pureIn[2])>>
    /\ UNCHANGED <<userProfile, isAuthenticated, isLoading, isMsalInitialized, accounts,
                   loads, logins, logouts, calls, lastOp, obs, pub, afterReset, pureIn>>

PairNext == DerivePair

PairSpec == PairInit /\ [][PairNext]_vars

(* ----------------------------------------------------------------------- *)
(* GroupSpec: getMyGroupsAndRoles applied to answers of /me/memberOf       *)
(* ----------------------------------------------------------------------- *)
GroupNames == {"AdminTeam", "AdminEditor", "Staff", "ADMIN-team", "admin-team",
               "Viewers", "EDITOR", "Guest"}
MemberOfItems == {Group(n) : n \in GroupNames} \cup {DirectoryRole("AdminEditor")}

GroupInit ==
    /\ Idle
    /\ pureIn \in SeqsUpTo(MemberOfItems, MaxItems)
    /\ pureOut = <<>>

ExtractGroups ==
    /\ pureOut = <<>>
    /\ pureOut' = <<getMyGroupsAndRoles([ok |-> TRUE, items |-> pureIn])>>
    /\ UNCHANGED <<userProfile, isAuthenticated, isLoading, isMsalInitialized, accounts,
                   loads, logins, logouts, calls, lastOp, obs, pub, afterReset, pureIn>>

GroupNext == ExtractGroups

GroupSpec == GroupInit /\ [][GroupNext]_vars

(* ----------------------------------------------------------------------- *)
(* HighestSpec: getHighestRole() on a store holding a profile or none      *)
(* ----------------------------------------------------------------------- *)
HighestPool == {"Admin", "Editor", "Viewer", "User", "admin", "SuperAdmin", "Guest", "Viewers"}

\* a published profile with the given roles
ProfileWithRoles(roles) ==
    [name |-> "Alice", email |-> "alice", username |-> "alice", roles |-> roles,
     groups |-> <<>>, graphProfile |-> FALSE,
     permissions |-> calculatePermissions(roles)]

HighestInit ==
    /\ userProfile \in {Null} \cup {ProfileWithRoles(r) : r \in SeqsUpTo(HighestPool, MaxRoles)}
    /\ isAuthenticated = (userProfile # Null)
    /\ isLoading = FALSE
    /\ isMsalInitialized = TRUE
    /\ obs = <<>>
    /\ pub = NoPub
    /\ accounts = <<>>
    /\ loads = <<>>
    /\ logins = <<>>
    /\ logouts = 0
    /\ calls = 0
    /\ lastOp = "none"
    /\ afterReset = FALSE
    /\ pureIn = <<>>
    /\ pureOut = <<>>

GetHighestRole ==
    /\ pureOut = <<>>
    /\ pureOut' = <<getHighestRole(userProfile)>>
    /\ UNCHANGED <<userProfile, isAuthenticated, isLoading, isMsalInitialized, accounts,
                   loads, logins, logouts, calls, lastOp, obs, pub, afterReset, pureIn>>

\* the dashboard, whose userProfile is the store's by its subscription, computes
\* its own highest role; pureIn holds its answer
DashboardGetHighestRole ==
    /\ pureIn = <<>>
    /\ pureIn' = <<dashboardGetHighestRole(userProfile)>>
    /\ UNCHANGED <<userProfile, isAuthenticated, isLoading, isMsalInitialized, accounts,
                   loads, logins, logouts, calls, lastOp, obs, pub, afterReset, pureOut>>

HighestNext == GetHighestRole \/ DashboardGetHighestRole

HighestSpec == HighestInit /\ [][HighestNext]_vars

(* ----------------------------------------------------------------------- *)
(* TokenSpec: one getAccessToken() call                                    *)
(* ----------------------------------------------------------------------- *)
Tokens == {"t1", "t2"}
TokenErrors == {"interaction_required", "popup_window_error", "user_cancelled"}
\* what acquireTokenSilent / acquireTokenPopup can answer: a response with a
\* token, a response without one, an error
TokenAnswers ==
    {[kind |-> "token", value |-> v] : v \in Tokens}
        \cup {[kind |-> "empty", value |-> ""]}
        \cup {[kind |-> "error", value |-> e] : e \in TokenErrors}
NoAnswer == [kind |-> "none", value |-> ""]
TokenCaches == {<<>>, <<Alice>>, <<Bob>>, <<Alice, Bob>>, <<Bob, Alice>>}

TokenCall0 == [pc |-> "initialize", silents |-> 0, popups |-> 0, account |-> NullAccount,
               silent |-> NoAnswer, popup |-> NoAnswer,
               outcome |-> "none", value |-> ""]

\* afterSilentFails that rethrows without the interactive attempt
afterSilentFailsRethrows(call, error) ==
    [call EXCEPT !.pc = "done", !.outcome = "thrown", !.value = error]

\* the catch block up to "await acquireTokenPopup()"
afterSilentFails(call, error) ==
    [call EXCEPT !.pc = "acquireTokenPopup", !.popups = @ + 1]

\* the try block up to "await acquireTokenSilent()"
tokenTry(call, cache) ==
    IF Len(cache) = 0 THEN afterSilentFails(call, "No user account found")
    ELSE [call EXCEPT !.pc = "acquireTokenSilent", !.silents = @ + 1, !.account = cache[1]]

TokenInit ==
    /\ userProfile = Null
    /\ isAuthenticated = FALSE
    /\ isLoading = FALSE
    /\ isMsalInitialized \in BOOLEAN
    /\ obs = <<>>
    /\ pub = NoPub
    /\ accounts \in TokenCaches
    /\ loads = <<>>
    /\ logins = <<>>
    /\ logouts = 0
    /\ calls = 0
    /\ lastOp = "none"
    /\ afterReset = FALSE
    /\ pureIn = <<>>
    /\ pureOut = <<>>

\* getAccessToken() up to its first pending await
GetAccessToken ==
    /\ pureOut = <<>>
    /\ pureOut' = <<IF isMsalInitialized THEN tokenTry(TokenCall0, accounts) ELSE TokenCall0>>
    /\ lastOp' = "getAccessToken"
    /\ UNCHANGED <<userProfile, isAuthenticated, isLoading, isMsalInitialized, accounts,
                   loads, logins, logouts, calls, obs, pub, afterReset, pureIn>>

\* "await ensureMSALInitialized()" is over
TokenInitializeReturns(ok) ==
    /\ pureOut # <<>>
    /\ pureOut[1].pc = "initialize"
    /\ isMsalInitialized' = (isMsalInitialized \/ ok)
    /\ pureOut' = <<IF ok THEN tokenTry(pureOut[1], accounts)
                    ELSE [pureOut[1] EXCEPT !.pc = "done", !.outcome = "thrown",
                                            !.value = "MSAL not initialized"]>>
    /\ lastOp' = "ensureMSALInitialized"
    /\ UNCHANGED <<userProfile, isAuthenticated, isLoading, accounts,
                   loads, logins, logouts, calls, obs, pub, afterReset, pureIn>>

\* "await acquireTokenSilent()" is over
AcquireTokenSilentReturns(answer) ==
    /\ pureOut # <<>>
    /\ pureOut[1].pc = "acquireTokenSilent"
    /\ LET call == [pureOut[1] EXCEPT !.silent = answer]
       IN  pureOut' = <<CASE answer.kind = "token" ->
                                [call EXCEPT !.pc = "done", !.outcome = "returned",
                                             !.value = answer.value]
                          [] answer.kind = "empty" ->
                                afterSilentFails(call, "No access token received")
                          [] answer.kind = "error" ->
                                afterSilentFails(call, answer.value)>>
    /\ lastOp' = "acquireTokenSilent"
    /\ UNCHANGED <<userProfile, isAuthenticated, isLoading, isMsalInitialized, accounts,
                   loads, logins, logouts, calls, obs, pub, afterReset, pureIn>>

\* "await acquireTokenPopup()" is over; the inner catch rethrows popupError
AcquireTokenPopupReturns(answer) ==
    /\ pureOut # <<>>
    /\ pureOut[1].pc = "acquireTokenPopup"
    /\ LET call == [pureOut[1] EXCEPT !.popup = answer, !.pc = "done"]
       IN  pureOut' = <<CASE answer.kind = "token" ->
                                [call EXCEPT !.outcome = "returned", !.value = answer.value]
                          [] answer.kind = "empty" ->
                                [call EXCEPT !.outcome = "thrown",
                                             !.value = "No access token received from popup"]
                          [] answer.kind = "error" ->
                                [call EXCEPT !.outcome = "thrown", !.value = answer.value]>>
    /\ lastOp' = "acquireTokenPopup"
    /\ UNCHANGED <<userProfile, isAuthenticated, isLoading, isMsalInitialized, accounts,
                   loads, logins, logouts, calls, obs, pub, afterReset, pureIn>>

TokenNext ==
    \/ GetAccessToken
    \/ \E ok \in BOOLEAN : TokenInitializeReturns(ok)
    \/ \E answer \in TokenAnswers : AcquireTokenSilentReturns(answer)
    \/ \E answer \in TokenAnswers : AcquireTokenPopupReturns(answer)

TokenSpec == TokenInit /\ [][TokenNext]_vars

(* ----------------------------------------------------------------------- *)
(* GuardSpec: the permission guards on a store holding a profile or none   *)
(* ----------------------------------------------------------------------- *)
\* AuthService.hasPermission; a name the record does not have reads undefined
hasPermission(profile, permission) ==
    IF profile = Null THEN FALSE
    ELSE IF permission \in DOMAIN profile.permissions THEN profile.permissions[permission]
    ELSE FALSE

\* route.data: "" stands for a key the route does not declare
RoutePermissions == {"", "canViewReports", "canManageUsers", "canFly"}
RouteRedirects == {"", "/unauthorized", "/login", "/dashboard"}
AttemptedUrls == {"/reports", "/admin"}
\* localStorage's redirectAfterLogin before the guard runs ("" for no entry)
StoredUrls == {"", "/dashboard"}
GuardPool == {"Admin", "Viewer", "User", "Guest"}

GuardInit ==
    /\ userProfile \in {Null} \cup {ProfileWithRoles(r) : r \in SeqsUpTo(GuardPool, MaxRoles)}
    /\ isAuthenticated = (userProfile # Null)
    /\ isLoading = FALSE
    /\ isMsalInitialized = TRUE
    /\ obs = <<>>
    /\ pub = NoPub
    /\ accounts = <<>>
    /\ loads = <<>>
    /\ logins = <<>>
    /\ logouts = 0
    /\ calls = 0
    /\ lastOp = "none"
    /\ afterReset = FALSE
    /\ pureIn \in [permission : RoutePermissions, redirectTo : RouteRedirects,
                    url : AttemptedUrls, redirectAfterLogin : StoredUrls]
    /\ pureOut = <<>>

\* permissionGuard that lets a route without a declared permission through
permissionGuardAllowsUndeclared(profile, route) ==
    LET redirectTo == IF route.redirectTo = "" THEN "/unauthorized" ELSE route.redirectTo
    IN  IF route.permission = "" \/ hasPermission(profile, route.permission)
        THEN [result |-> TRUE, navigate |-> "",
              redirectAfterLogin |-> route.redirectAfterLogin]
        ELSE [result |-> FALSE, navigate |-> redirectTo,
              redirectAfterLogin |-> IF redirectTo # "/login" THEN route.url
                                     ELSE route.redirectAfterLogin]

\* permission.guard.ts: permissionGuard(route, state)
permissionGuard(profile, route) ==
    LET redirectTo == IF route.redirectTo = "" THEN "/unauthorized" ELSE route.redirectTo
    IN  IF route.permission # "" /\ hasPermission(profile, route.permission)
        THEN [result |-> TRUE, navigate |-> "",
              redirectAfterLogin |-> route.redirectAfterLogin]
        ELSE [result |-> FALSE, navigate |-> redirectTo,
              redirectAfterLogin |-> IF redirectTo # "/login" THEN route.url
                                     ELSE route.redirectAfterLogin]

\* role.guard.ts: permissionGuard(requiredPermission)()
permissionGuardOf(profile, requiredPermission, route) ==
    IF hasPermission(profile, requiredPermission)
    THEN [result |-> TRUE, navigate |-> "", redirectAfterLogin |-> route.redirectAfterLogin]
    ELSE [result |-> FALSE, navigate |-> "/unauthorized",
          redirectAfterLogin |-> route.redirectAfterLogin]

PermissionGuard ==
    /\ pureOut = <<>>
    /\ pureOut' = <<permissionGuard(userProfile, pureIn)>>
    /\ lastOp' = "permission.guard"
    /\ UNCHANGED <<userProfile, isAuthenticated, isLoading, isMsalInitialized, accounts,
                   loads, logins, logouts, calls, obs, pub, afterReset, pureIn>>

PermissionGuardOf ==
    /\ pureOut = <<>>
    /\ pureIn.redirectTo = ""
    /\ pureOut' = <<permissionGuardOf(userProfile, pureIn.permission, pureIn)>>
    /\ lastOp' = "role.guard"
    /\ UNCHANGED <<userProfile, isAuthenticated, isLoading, isMsalInitialized, accounts,
                   loads, logins, logouts, calls, obs, pub, afterReset, pureIn>>

GuardNext == PermissionGuard \/ PermissionGuardOf

GuardSpec == GuardInit /\ [][GuardNext]_vars

(* ----------------------------------------------------------------------- *)
(* ClientSpec: GraphService.getAuthenticatedClient across sign-ins.        *)
(* pureOut is graphClient (<<>> for null, else <<the account of its        *)
(* token>>), pureIn the directory calls made: for which account's          *)
(* assembly, with which account's token.                                   *)
(* ----------------------------------------------------------------------- *)
\* how getAccessToken() can end: with a token of the signed-in account, the first
\* of the cache (acquired silently, or by the popup for that session), or in a throw
TokenOutcomes(cache) ==
    {[ok |-> TRUE, account |-> cache[1]] : k \in {1} \cap DOMAIN cache}
        \cup {[ok |-> FALSE, account |-> NullAccount]}

\* getAuthenticatedClient(): the client made on the first call is kept for good
getAuthenticatedClient(graphClient, token) ==
    IF graphClient # <<>> THEN [ok |-> TRUE, graphClient |-> graphClient]
    ELSE IF token.ok THEN [ok |-> TRUE, graphClient |-> <<token.account>>]
    ELSE [ok |-> FALSE, graphClient |-> <<>>]

\* the service after construction: an account left in the cache by an earlier
\* visit has its assembly started by initializeAuth()
ClientInit ==
    /\ userProfile = Null
    /\ isAuthenticated = FALSE
    /\ isLoading = FALSE
    /\ isMsalInitialized = TRUE
    /\ obs = <<>>
    /\ pub = NoPub
    /\ accounts \in InitialCaches \ {<<NullAccount>>}
    /\ loads = initializeAuth(FALSE, accounts).loads
    /\ logins = <<>>
    /\ logouts = 0
    /\ calls = 0
    /\ lastOp = "constructor"
    /\ afterReset = FALSE
    /\ pureIn = {}
    /\ pureOut = <<>>

\* a login as account a has succeeded: the first cached account's assembly starts.
\* Sign-ins come one at a time here; overlapping assemblies are Spec's matter
ClientLogin(a) ==
    /\ loads = <<>>
    /\ calls < MaxCalls
    /\ calls' = calls + 1
    /\ \E cache \in CacheAfterLogin(accounts, a) :
          /\ accounts' = cache
          /\ loads' = Append(loads, [pc |-> "getMyProfile", account |-> cache[1],
                                     then |-> "authenticate", rejected |-> FALSE,
                                     published |-> FALSE])
    /\ lastOp' = "loginPopup.next"
    /\ UNCHANGED <<userProfile, isAuthenticated, isLoading, isMsalInitialized,
                   logins, logouts, obs, pub, afterReset, pureIn, pureOut>>

\* a logout has succeeded, or reset() has run: the provider's cache is empty
ClientLogout ==
    /\ accounts # <<>>
    /\ accounts' = <<>>
    /\ lastOp' = "logoutPopup.next"
    /\ UNCHANGED <<userProfile, isAuthenticated, isLoading, isMsalInitialized, loads,
                   logins, logouts, calls, obs, pub, afterReset, pureIn, pureOut>>

\* the next directory call of assembly i: getMyProfile, whose failure ends the
\* enrichment, then getMyGroupsAndRoles
DirectoryCall(i, token) ==
    /\ loads[i].pc \in {"getMyProfile", "getMyGroupsAndRoles"}
    /\ LET c == getAuthenticatedClient(pureOut, token) IN
          /\ pureOut' = c.graphClient
          /\ pureIn' = IF c.ok
                       THEN pureIn \cup {[account |-> loads[i].account,
                                          token |-> c.graphClient[1]]}
                       ELSE pureIn
          /\ loads' = IF c.ok /\ loads[i].pc = "getMyProfile"
                      THEN [loads EXCEPT ![i].pc = "getMyGroupsAndRoles"]
                      ELSE RemoveAt(loads, i)
    /\ lastOp' = loads[i].pc
    /\ UNCHANGED <<userProfile, isAuthenticated, isLoading, isMsalInitialized, accounts,
                   logins, logouts, calls, obs, pub, afterReset>>

ClientNext ==
    \/ \E a \in Accounts : ClientLogin(a)
    \/ ClientLogout
    \/ \E i \in 1..Len(loads), token \in TokenOutcomes(accounts) : DirectoryCall(i, token)

ClientSpec == ClientInit /\ [][ClientNext]_vars

TypeOK ==
    /\ isAuthenticated \in BOOLEAN
    /\ isLoading \in BOOLEAN
    /\ isMsalInitialized \in BOOLEAN
    /\ calls \in 0..MaxCalls
    /\ Len(loads) <= 1 + MaxCalls
    /\ Len(logins) <= MaxCalls
    /\ logouts \in 0..MaxCalls


(* ----------------------------------------------------------------------- *)
(* Properties                                                              *)
(* ----------------------------------------------------------------------- *)
ToSet(s) == {s[i] : i \in 1..Len(s)}
NoDuplicates(s) == \A i, j \in 1..Len(s) : s[i] = s[j] => i = j
AnyGranted(p) == \E k \in PermissionNames : p[k]
AllGranted(p) == \A k \in PermissionNames : p[k]
Happened(ev) == \E k \in 1..Len(obs) : obs[k].ev = ev

\* C1: in every state of the store, isAuthenticated = true implies that the
\* profile is not null.
C1_AuthenticatedHasProfile == isAuthenticated => userProfile # Null

\* C2: whatever the role list, the record calculatePermissions returns has
\* canViewDashboard true as soon as any of its flags is true.
C2_DashboardWheneverAnyPermission ==
    pureOut # <<>> => (AnyGranted(pureOut[1]) => pureOut[1].canViewDashboard)

\* a role that grants through the substring rules alone
C2_Witness ==
    /\ pureIn = <<"CustomWriteRole">>
    /\ pureOut # <<>>
    /\ pureOut[1].canSendEmails
    /\ pureOut[1].canViewDashboard

\* C3 as stated: every published profile has roles equal to the deduplicated
\* union of the account's claim roles and the roles of its groups, on the enriched,
\* the fallback and the minimal path alike.
C3_RolesAreDeduplicatedUnion ==
    pub.path # "none" =>
        /\ ToSet(userProfile.roles) =
               ToSet(pub.account.roles)
                   \cup UNION {ToSet(userProfile.groups[i].roles) :
                                  i \in 1..Len(userProfile.groups)}
        /\ NoDuplicates(userProfile.roles)

\* C3 as amended: on the enriched path the roles are the union of the claim roles
\* and the groups' roles without duplicates (claims {"User"} and the one group
\* "AdminTeam" give <<"User", "Admin">> and every permission); on the fallback
\* path they are the claim roles as the token lists them; on the minimal path they
\* are <<"User">>.
C3_RolesByPath ==
    /\ pub.path = "full" =>
        /\ ToSet(userProfile.roles) =
               ToSet(pub.account.roles)
                   \cup UNION {ToSet(userProfile.groups[i].roles) :
                                  i \in 1..Len(userProfile.groups)}
        /\ NoDuplicates(userProfile.roles)
        /\ (/\ pub.account.roles = <<"User">>
            /\ Len(userProfile.groups) = 1
            /\ userProfile.groups[1].displayName = "AdminTeam")
           => (userProfile.roles = <<"User", "Admin">>
               /\ AllGranted(userProfile.permissions))
    /\ pub.path = "fallback" =>
        (userProfile.roles = pub.account.roles /\ userProfile.groups = <<>>)
    /\ pub.path = "error" =>
        (userProfile.roles = <<"User">> /\ userProfile.groups = <<>>)

\* an enriched profile whose groups repeat a claim role and each other's roles
C3_Witness ==
    /\ pub.path = "full"
    /\ pub.account = Alice
    /\ Len(userProfile.groups) = 3
    /\ userProfile.roles = <<"User", "Admin", "Editor">>

\* C4: every loadUserProfile invocation that has ended returned instead of
\* throwing, and had published a non-null profile before it returned.
C4_AssemblyAlwaysPublishes ==
    /\ \A k \in 1..Len(obs) :
        /\ obs[k].ev # "loadUserProfile throws"
        /\ obs[k].ev = "loadUserProfile returns" =>
               \E j \in 1..(k - 1) : obs[j].ev = "userProfile" /\ obs[j].hasProfile
    /\ \A i \in 1..Len(loads) :
        loads[i].pc = "resolved" => (loads[i].published /\ ~loads[i].rejected)

\* the invocation whose first step threw has returned with the minimal profile
C4_Witness ==
    /\ pub.path = "error"
    /\ Happened("loadUserProfile returns")
    /\ \E i \in 1..Len(loads) : loads[i].pc = "resolved" /\ ~loads[i].account.valid

\* C5: loadUserProfile emits isLoading = true right on entry, and on every way out
\* it emits the profile and then isLoading = false.
C5_LoadingBracketsAssembly ==
    \A k \in 1..Len(obs) :
        /\ obs[k].ev = "loadUserProfile called" =>
               (k < Len(obs) /\ obs[k + 1].ev = "isLoading" /\ obs[k + 1].isLoading)
        /\ obs[k].ev \in {"loadUserProfile returns", "loadUserProfile throws"} =>
               /\ k > 2
               /\ obs[k - 1].ev = "isLoading" /\ ~obs[k - 1].isLoading
               /\ obs[k - 2].ev = "userProfile" /\ obs[k - 2].hasProfile

\* the fallback way out has been taken
C5_Witness ==
    /\ lastOp = "getMyProfile"
    /\ pub.path = "fallback"
    /\ Happened("loadUserProfile returns")
    /\ ~isLoading

\* C6: isAuthenticated is set to true only by the continuation of a loadUserProfile
\* invocation that has published its profile and returned, never while that
\* invocation is still at one of its awaits.
C6_AuthenticatedOnlyAfterPublish ==
    [][(\E k \in 1..Len(obs') : obs'[k].ev = "isAuthenticated" /\ obs'[k].isAuthenticated)
        => \E i \in 1..Len(loads) :
              /\ loads[i].pc = "resolved"
              /\ loads[i].published
              /\ loads[i].then = "authenticate"
              /\ loads' = RemoveAt(loads, i)]_vars

\* a login as Bob was authenticated after Bob's profile was published
C6_Witness ==
    /\ lastOp = "loadUserProfile.then"
    /\ isAuthenticated
    /\ calls > 0
    /\ userProfile # Null
    /\ userProfile.username = "bob"

\* C7: loginPopup's error handler sets isLoading to false and leaves
\* isAuthenticated and the profile as they were.
C7_LoginFailureFrame ==
    [][lastOp' = "loginPopup.error" =>
          /\ isLoading' = FALSE
          /\ isAuthenticated' = isAuthenticated
          /\ userProfile' = userProfile]_vars

\* a login failed on a store that was authenticated
C7_Witness ==
    /\ lastOp = "loginPopup.error"
    /\ isAuthenticated
    /\ userProfile # Null
    /\ ~isLoading

\* C8: when logoutPopup succeeds, nothing that runs during the handler (the
\* subscribers of the three subjects) sees the profile null while isAuthenticated
\* is still true.
C8_LogoutIsAtomic ==
    lastOp = "logoutPopup.next" =>
        \A k \in 1..Len(obs) : ~(~obs[k].hasProfile /\ obs[k].isAuthenticated)

\* C9: reset() leaves profile null, isAuthenticated false, isLoading false and the
\* readiness flag cleared, and the first login() after it calls initialize().
C9_ResetForcesInitialize ==
    [][/\ lastOp' = "reset" =>
            (userProfile' = Null /\ ~isAuthenticated' /\ ~isLoading' /\ ~isMsalInitialized')
       /\ (lastOp' = "login" /\ afterReset) =>
            logins'[Len(logins')].pc = "initialize"]_vars

\* C10 as stated: isAuthenticated goes from false to true only out of a state in
\* which isLoading is true, and a failed login ends unauthenticated.
C10_AuthenticatedOutOfLoading ==
    [][/\ (~isAuthenticated /\ isAuthenticated') => isLoading
       /\ lastOp' = "loginPopup.error" => ~isAuthenticated']_vars

\* C10 as amended: isAuthenticated goes from false to true only in the
\* continuation of a loadUserProfile invocation that has gone through its loading
\* phase and ended it (isLoading set on entry, the profile published and isLoading
\* released on exit); a failed login ends unauthenticated when it began
\* unauthenticated; login() and logout() can always be called.
C10_Lifecycle ==
    /\ [][/\ (~isAuthenticated /\ isAuthenticated') =>
               /\ lastOp' = "loadUserProfile.then"
               /\ \E i \in 1..Len(loads) :
                     /\ loads[i].pc = "resolved"
                     /\ loads[i].published
                     /\ loads' = RemoveAt(loads, i)
          /\ (lastOp' = "loginPopup.error" /\ ~isAuthenticated) => ~isAuthenticated']_vars
    /\ [](calls < MaxCalls => (ENABLED Login /\ ENABLED Logout))

\* authenticated out of a state in which isLoading was already false
C10_Witness ==
    /\ lastOp = "loadUserProfile.then"
    /\ isAuthenticated
    /\ ~isLoading
    /\ \A k \in 1..Len(obs) : obs[k].ev = "isAuthenticated" => ~obs[k].isLoading

\* C11: the derivation is monotonic: when every role of one list is also in another
\* list, every permission the first list is given is given to the second list too.
C11_DerivationIsMonotonic ==
    (pureOut # <<>> /\ ToSet(pureIn[1]) \subseteq ToSet(pureIn[2]))
        => \A k \in PermissionNames : pureOut[1][k] => pureOut[2][k]

\* a list and a longer one that is given strictly more
C11_Witness ==
    /\ pureIn = << <<"Viewer">>, <<"CustomWriteRole", "Viewer">> >>
    /\ pureOut # <<>>
    /\ pureOut[1].canViewReports /\ pureOut[2].canViewReports
    /\ ~pureOut[1].canSendEmails /\ pureOut[2].canSendEmails

\* C12: the record depends on the set of roles only: two lists with the same
\* roles, in whatever order and however often repeated, are given the same record.
C12_DerivationDependsOnSetOnly ==
    (pureOut # <<>> /\ ToSet(pureIn[1]) = ToSet(pureIn[2])) => pureOut[1] = pureOut[2]

\* a list and its reversal, and a role against the same role twice
C12_Witness ==
    /\ pureOut # <<>>
    /\ \/ pureIn = << <<"CustomWriteRole", "Viewer">>, <<"Viewer", "CustomWriteRole">> >>
       \/ pureIn = << <<"Editor">>, <<"Editor", "Editor">> >>
    /\ pureOut[1] = pureOut[2]
    /\ pureOut[1].canSendEmails

\* the permissions a record grants
Granted(p) == {k \in PermissionNames : p[k]}

\* C13: a single role that is one of the exact names, in any letter case, is given:
\* admin or administrator all five permissions; editor exactly dashboard, send
\* emails and view reports; viewer exactly dashboard and view reports; user
\* exactly dashboard. The empty list is given nothing.
C13_ExactRoles ==
    (pureOut # <<>> /\ Len(pureIn) <= 1) =>
        /\ pureIn = <<>> => Granted(pureOut[1]) = {}
        /\ \A r \in {"Admin", "ADMIN", "administrator", "Administrator"} :
              pureIn = <<r>> => Granted(pureOut[1]) = PermissionNames
        /\ \A r \in {"Editor", "EDITOR"} :
              pureIn = <<r>> =>
                  Granted(pureOut[1]) = {"canViewDashboard", "canSendEmails", "canViewReports"}
        /\ \A r \in {"Viewer", "viewer"} :
              pureIn = <<r>> => Granted(pureOut[1]) = {"canViewDashboard", "canViewReports"}
        /\ \A r \in {"User", "USER"} :
              pureIn = <<r>> => Granted(pureOut[1]) = {"canViewDashboard"}

\* an exact name in capitals has been derived
C13_Witness ==
    /\ pureIn = <<"EDITOR">>
    /\ pureOut # <<>>
    /\ Granted(pureOut[1]) = {"canViewDashboard", "canSendEmails", "canViewReports"}

\* the words of the substring rules that each role name outside the exact names
\* contains, letter case aside
WordsIn(r) ==
    CASE r = "CustomWriteRole" -> {"write"}
      [] r = "SuperAdmin" -> {"admin"}
      [] r = "ReadOnly" -> {"read"}
      [] r = "Guest" -> {}
      [] r = "AdminEditor" -> {"admin", "editor"}
      [] r = "Viewers" -> {"view"}

\* C14: a single role outside the exact names is given exactly: manage users and
\* manage settings iff it contains "admin"; send emails iff it contains "editor"
\* or "write"; view reports iff it contains "view" or "read"; dashboard iff any of
\* those. CustomWriteRole is given send emails and dashboard only.
C14_SubstringRoles ==
    \A r \in {"CustomWriteRole", "SuperAdmin", "ReadOnly", "Guest", "AdminEditor", "Viewers"} :
        (pureOut # <<>> /\ pureIn = <<r>>) =>
            LET p == pureOut[1] IN
            /\ p.canManageUsers <=> "admin" \in WordsIn(r)
            /\ p.canManageSettings <=> "admin" \in WordsIn(r)
            /\ p.canSendEmails <=> WordsIn(r) \cap {"editor", "write"} # {}
            /\ p.canViewReports <=> WordsIn(r) \cap {"view", "read"} # {}
            /\ p.canViewDashboard <=> WordsIn(r) # {}
            /\ r = "CustomWriteRole" => Granted(p) = {"canSendEmails", "canViewDashboard"}

\* a name that two of the substring rules match has been derived
C14_Witness ==
    /\ pureIn = <<"AdminEditor">>
    /\ pureOut # <<>>
    /\ Granted(pureOut[1]) =
           {"canManageUsers", "canManageSettings", "canSendEmails", "canViewDashboard"}

\* the words of the group rules that each group name contains, letter case aside
GroupWordsIn(n) ==
    CASE n = "AdminTeam" -> {"admin"}
      [] n = "AdminEditor" -> {"admin", "editor"}
      [] n = "Staff" -> {}
      [] n = "ADMIN-team" -> {"admin"}
      [] n = "admin-team" -> {"admin"}
      [] n = "Viewers" -> {"viewer"}
      [] n = "EDITOR" -> {"editor"}
      [] n = "Guest" -> {}

\* C15: the roles of a group are exactly Admin if its name contains "admin", Editor
\* if it contains "editor", Viewer if it contains "viewer", letter case aside and
\* each rule on its own, and User alone when no rule matches; AdminEditor is given
\* Admin and Editor, and ADMIN-team and admin-team are given the same roles.
C15_GroupRoles ==
    pureOut # <<>> =>
        /\ \A i \in 1..Len(pureOut[1]) :
              LET g == pureOut[1][i]
                  w == GroupWordsIn(g.displayName)
              IN  /\ NoDuplicates(g.roles)
                  /\ ToSet(g.roles) =
                        IF w = {} THEN {"User"}
                        ELSE {"Admin" : x \in w \cap {"admin"}}
                               \cup {"Editor" : x \in w \cap {"editor"}}
                               \cup {"Viewer" : x \in w \cap {"viewer"}}
                  /\ g.displayName = "AdminEditor" => ToSet(g.roles) = {"Admin", "Editor"}
        /\ \A i, j \in 1..Len(pureOut[1]) :
              (pureOut[1][i].displayName = "ADMIN-team"
                 /\ pureOut[1][j].displayName = "admin-team")
                  => pureOut[1][i].roles = pureOut[1][j].roles

\* a group that two rules match and a group that none matches have been extracted
C15_Witness ==
    /\ pureIn = <<Group("AdminEditor"), Group("Staff")>>
    /\ pureOut # <<>>
    /\ Len(pureOut[1]) = 2
    /\ pureOut[1][1].roles = <<"Admin", "Editor">>
    /\ pureOut[1][2].roles = <<"User">>

C17_EnrichmentFailureFallback ==
    /\ (lastOp = "getMyProfile" /\ Happened("userProfile")) =>
          /\ pub.path = "fallback"
          /\ Happened("loadUserProfile returns")
          /\ ~Happened("loadUserProfile throws")
          /\ \A i \in 1..Len(loads) : ~loads[i].rejected
    /\ pub.path = "fallback" =>
          /\ userProfile # Null
          /\ userProfile.roles = pub.account.roles
          /\ userProfile.groups = <<>>
          /\ userProfile.permissions = calculatePermissions(pub.account.roles)
          /\ ToSet(pub.account.roles) = {"Editor"} =>
                Granted(userProfile.permissions) =
                    {"canViewDashboard", "canSendEmails", "canViewReports"}
          /\ ToSet(pub.account.roles) = {"User"} =>
                Granted(userProfile.permissions) = {"canViewDashboard"}

\* getMyProfile has just failed for the account whose claim is Editor
C17_Witness ==
    /\ lastOp = "getMyProfile"
    /\ pub.path = "fallback"
    /\ ToSet(pub.account.roles) = {"Editor"}
    /\ userProfile.groups = <<>>
    /\ userProfile.permissions.canSendEmails
    /\ Happened("loadUserProfile returns")

\* C18 as stated: when building the basic profile fails, the profile published has
\* an empty name, an empty email and an empty username, roles {"User"}, no groups
\* and the permissions of {"User"}: the dashboard alone.
C18_MinimalProfileIsNameless ==
    pub.path = "error" =>
        /\ userProfile.name = ""
        /\ userProfile.email = ""
        /\ userProfile.username = ""
        /\ userProfile.roles = <<"User">>
        /\ userProfile.groups = <<>>
        /\ Granted(userProfile.permissions) = {"canViewDashboard"}

\* C18 as amended: when building the basic profile fails, the profile published has
\* the name "User", an empty email and an empty username, roles {"User"}, no groups
\* and the permissions of {"User"}: the dashboard alone.
C18_MinimalProfile ==
    /\ pub.path = "error" =>
          /\ userProfile.name = "User"
          /\ userProfile.email = ""
          /\ userProfile.username = ""
          /\ userProfile.roles = <<"User">>
          /\ userProfile.groups = <<>>
          /\ Granted(userProfile.permissions) = {"canViewDashboard"}
    /\ \A i \in 1..Len(loads) :
          (loads[i].pc = "resolved" /\ ~loads[i].account.valid) => loads[i].published

\* refreshUserProfile() has just run on a cache whose first account cannot be read
C18_Witness ==
    /\ lastOp = "refreshUserProfile"
    /\ pub.path = "error"
    /\ ~pub.account.valid
    /\ userProfile.name = "User"
    /\ ~isLoading

\* C19: when initialize() fails, the login is over without loginPopup having been
\* started, profile and isAuthenticated are as they were, isLoading is false, and
\* the failure has reached the caller of login() (the callback ends in a throw
\* or an error emission rather than in a plain return).
C19_InitFailureBlocksAndSurfaces ==
    [][(lastOp' = "login.then" /\ Len(logins') < Len(logins)) =>
          /\ \A i \in 1..Len(logins') : logins'[i].pc = "loginPopup" =>
                \E j \in 1..Len(logins) : logins[j].pc = "loginPopup"
          /\ userProfile' = userProfile
          /\ isAuthenticated' = isAuthenticated
          /\ ~isLoading'
          /\ \E k \in 1..Len(obs') : obs'[k].ev \in {"login.then throws", "login error"}
          /\ \A k \in 1..Len(obs') : obs'[k].ev # "login.then returns"]_vars

\* C20: in getAccessToken(), once the silent acquisition has failed exactly one
\* interactive acquisition is made; a token it yields is what the call returns, an
\* error it ends in is what the call throws, and nothing is tried again.
C20_OneInteractiveFallback ==
    pureOut # <<>> =>
        LET call == pureOut[1] IN
        /\ call.silents <= 1
        /\ call.popups <= 1
        /\ call.silent.kind \in {"empty", "error"} => call.popups = 1
        /\ (call.pc = "done" /\ call.popup.kind = "token") =>
              (call.outcome = "returned" /\ call.value = call.popup.value)
        /\ (call.pc = "done" /\ call.popup.kind = "error") =>
              (call.outcome = "thrown" /\ call.value = call.popup.value)
        /\ (call.pc = "done" /\ call.popup.kind = "empty") => call.outcome = "thrown"

\* the silent acquisition failed and the interactive one has answered
C20_Witness ==
    /\ pureOut # <<>>
    /\ pureOut[1].pc = "done"
    /\ pureOut[1].silent.kind = "error"
    /\ pureOut[1].popups = 1
    /\ \/ pureOut[1].popup.kind = "token" /\ pureOut[1].outcome = "returned"
       \/ pureOut[1].popup.kind = "error" /\ pureOut[1].outcome = "thrown"

\* C21: whatever the group lookup ran into, the invocation whose getMyProfile
\* succeeded publishes an enriched profile and returns; when the lookup gave
\* nothing, the profile has no groups and its roles are the claim roles, each once.
C21_GroupLookupNeverFails ==
    /\ lastOp = "getMyGroupsAndRoles" =>
          /\ pub.path = "full"
          /\ userProfile # Null
          /\ userProfile.graphProfile
          /\ Happened("loadUserProfile returns")
          /\ ~Happened("loadUserProfile throws")
    /\ (pub.path = "full" /\ userProfile.groups = <<>>) =>
          /\ NoDuplicates(userProfile.roles)
          /\ ToSet(userProfile.roles) = ToSet(pub.account.roles)
          /\ userProfile.permissions = calculatePermissions(userProfile.roles)

\* the lookup failed for the account whose token lists Editor twice
C21_Witness ==
    /\ lastOp = "getMyGroupsAndRoles"
    /\ pub.path = "full"
    /\ pub.account = Bob
    /\ userProfile.groups = <<>>
    /\ userProfile.roles = <<"Editor">>

\* C22 as stated: the permission guard lets the navigation through exactly when the route
\* declares a permission and the profile in the store has it (never without a
\* profile); whenever it denies it returns false, navigates to the route's redirect
\* target (/unauthorized when the route names none) and stores the attempted URL.
C22_GuardDeniesRedirectsAndStores ==
    pureOut # <<>> =>
        LET o == pureOut[1] IN
        /\ o.result <=> (/\ pureIn.permission # ""
                         /\ userProfile # Null
                         /\ pureIn.permission \in PermissionNames
                         /\ userProfile.permissions[pureIn.permission])
        /\ ~o.result =>
              /\ o.navigate = IF pureIn.redirectTo = "" THEN "/unauthorized"
                              ELSE pureIn.redirectTo
              /\ o.redirectAfterLogin = pureIn.url

\* C22 as amended: both guards let the navigation through exactly when a permission
\* is declared and the profile in the store has it, and return false and navigate
\* on every denial. The route guard navigates to the route's redirect target
\* (/unauthorized when the route names none) and stores the attempted URL unless
\* that target is /login; the guard made by the factory navigates to /unauthorized
\* and leaves the stored URL alone.
C22_GuardDenial ==
    pureOut # <<>> =>
        LET o == pureOut[1] IN
        /\ o.result <=> (/\ pureIn.permission # ""
                         /\ userProfile # Null
                         /\ pureIn.permission \in PermissionNames
                         /\ userProfile.permissions[pureIn.permission])
        /\ (~o.result /\ lastOp = "permission.guard") =>
              /\ o.navigate = IF pureIn.redirectTo = "" THEN "/unauthorized"
                              ELSE pureIn.redirectTo
              /\ o.redirectAfterLogin = IF pureIn.redirectTo = "/login"
                                        THEN pureIn.redirectAfterLogin
                                        ELSE pureIn.url
        /\ (~o.result /\ lastOp = "role.guard") =>
              /\ o.navigate = "/unauthorized"
              /\ o.redirectAfterLogin = pureIn.redirectAfterLogin

\* the route guard has denied a store without the permission and sent it to /login
C22_Witness ==
    /\ pureOut # <<>>
    /\ lastOp = "permission.guard"
    /\ userProfile # Null
    /\ pureIn.permission = "canViewReports"
    /\ pureIn.redirectTo = "/login"
    /\ ~pureOut[1].result
    /\ pureOut[1].navigate = "/login"
    /\ pureOut[1].redirectAfterLogin # pureIn.url

\* C23: after reset(), for as long as login() has not been called again, and in the
\* step that follows a successful logout, the profile stays null and
\* isAuthenticated stays false: an invocation of loadUserProfile that was in
\* flight neither publishes nor authenticates.
C23_SignedOutStaysSignedOut ==
    [][((afterReset /\ afterReset') \/ lastOp = "logoutPopup.next")
          => (userProfile' = Null /\ ~isAuthenticated')]_vars

\* C24: every directory call made for the assembly of an account carries a token
\* acquired for that account.
C24_TokenOfTheSameAccount ==
    \A c \in pureIn : c.token = c.account

\* C25: isLoading is true in every state in which a login, a logout or an
\* invocation of loadUserProfile has not finished yet.
C25_LoadingWhileInFlight ==
    (\/ \E i \in 1..Len(loads) : loads[i].pc # "resolved"
     \/ logins # <<>>
     \/ logouts > 0) => isLoading

\* the invocations of loadUserProfile for account a that have not ended yet
InFlight(ls, a) == Cardinality({i \in 1..Len(ls) : ls[i].account = a /\ ls[i].pc # "resolved"})

\* C26: every invocation of loadUserProfile that comes to its end, whatever else
\* is still running and whatever was started before or after it, has published:
\* the step in which an assembly for account a ends leaves a's profile in the store.
C26_LastCompletedWins ==
    [][\A a \in Accounts :
          InFlight(loads', a) < InFlight(loads, a)
              => /\ userProfile' # Null
                 /\ pub'.account = a
                 /\ userProfile'.username = a.username]_vars

\* two assemblies for different accounts have both ended, and the store holds the
\* profile of the one that was started first and ended last
C26_Witness ==
    /\ Len(loads) = 2
    /\ loads[1].pc = "resolved" /\ loads[2].pc = "resolved"
    /\ loads[1].published /\ loads[2].published
    /\ loads[1].account # loads[2].account
    /\ lastOp = "getMyGroupsAndRoles"
    /\ userProfile # Null
    /\ pub.account = loads[1].account

\* C27: a successful interactive login starts the assembly for the account that
\* the login returned. A login as an account that was not cached before is seen
\* in the cache, which grows by exactly that account.
C27_LoginLoadsReturnedAccount ==
    [][(lastOp' = "loginPopup.next" /\ Len(accounts') > Len(accounts))
          => /\ Len(loads') = Len(loads) + 1
             /\ loads'[Len(loads')].account \in ToSet(accounts') \ ToSet(accounts)]_vars

\* C28: the profile in the store, which is the last one published, has the
\* permissions that calculatePermissions derives from that profile's own roles.
C28_PermissionsOfOwnRoles ==
    userProfile # Null => userProfile.permissions = calculatePermissions(userProfile.roles)

\* a full profile whose roles come from the token and from a group, and whose
\* permissions are those of the merged roles
C28_Witness ==
    /\ pub.path = "full"
    /\ pub.account = Alice
    /\ userProfile.roles = <<"User", "Admin">>
    /\ userProfile.permissions.canManageUsers

\* C29: after reset(), for as long as login() has not been called again (and so
\* initialize() has not been awaited), the readiness flag is cleared.
C29_ResetKeepsFlagCleared == afterReset => ~isMsalInitialized

roleHierarchy == <<"Admin", "Editor", "Viewer", "User">>

\* C30: when hasRole is true of one of Admin, Editor, Viewer, User, getHighestRole()
\* returns the first of them, in that order, of which hasRole is true, whatever
\* the letter case of the stored roles; and the dashboard's getHighestRole()
\* returns what the service's returns.
C30_HighestRoleAgreesWithHasRole ==
    /\ pureOut # <<>> =>
          \A k \in 1..Len(roleHierarchy) :
              (/\ hasRole(userProfile, roleHierarchy[k])
               /\ \A j \in 1..(k - 1) : ~hasRole(userProfile, roleHierarchy[j]))
                  => pureOut[1] = roleHierarchy[k]
    /\ (pureOut # <<>> /\ pureIn # <<>>) => pureIn[1] = pureOut[1]

====
